---- MODULE Spec2Model ----
(***************************************************************************)
(* Model of the LaunchDarkly Lambda Logger facade (class Logger): the      *)
(* level-resolution / gating protocol of the leveled methods, the SDK      *)
(* log-level bootstrap of initialize, and close.  The LaunchDarkly client  *)
(* and the Winston logger are opaque collaborators: a client is a record   *)
(* counting the calls made on it, the Winston logger is the sequence of    *)
(* messages handed to it (sink).  Every await on a collaborator promise is *)
(* a suspension point: the handler is split there into one action per      *)
(* continuation, and the promise settles with any outcome the collaborator *)
(* can produce (a value, or a rejection).                                  *)
(***************************************************************************)
EXTENDS Integers, Sequences, FiniteSets, TLC

VARIABLES
    ldClient,                \* this.ldClient: index into clients, Null when null
    FLAG_KEY,                \* this.FLAG_KEY
    SDK_LOG_LEVEL_FLAG_KEY,  \* this.SDK_LOG_LEVEL_FLAG_KEY
    context,                 \* this.context
    env,                     \* process.env (the two flag-key variables)
    clients,                 \* every LaunchDarkly client that exists, in creation order
    init,                    \* the initialize call in flight (its locals and position)
    initResult,              \* how the last initialize call ended
    initTrace,               \* collaborator calls made by the current/last initialize, in order
    calls,                   \* the leveled calls started so far (locals and position)
    sink,                    \* messages handed to this.logger (Winston), in order
    nInit,                   \* number of initialize calls started
    nClose,                  \* number of close calls made
    nDiag                    \* number of SDK diagnostic messages delivered

vars == <<ldClient, FLAG_KEY, SDK_LOG_LEVEL_FLAG_KEY, context, env, clients,
          init, initResult, initTrace, calls, sink, nInit, nClose, nDiag>>

----------------------------------------------------------------------------
(* Bounds of the model *)

MaxBootInits == 1
MaxBootCloses == 1
MaxDiag == 1

MaxInits == 2
MaxCloses == 2
MaxLifeLogs == 1

MaxGateInits == 1
MaxLogs == 1
MaxGateCloses == 1

MaxCallInits == 1
MaxCallLogs == 2
MaxCallCloses == 1

MaxDiagInits == 1
MaxDiagLogs == 1
MaxDiagMessages == 2

MaxMixInits == 2
MaxMixLogs == 1

MaxArgs == 3
MaxFormatCalls == 1

----------------------------------------------------------------------------
(* Values *)

Null == 0
Undefined == "undefined"

LogLevel_FATAL == 0
LogLevel_ERROR == 1
LogLevel_WARN == 2
LogLevel_INFO == 3
LogLevel_DEBUG == 4
LogLevel_TRACE == 5

LogLevel == {LogLevel_FATAL, LogLevel_ERROR, LogLevel_WARN,
             LogLevel_INFO, LogLevel_DEBUG, LogLevel_TRACE}

\* the Winston method each leveled method of Logger calls
LevelName == <<"fatal", "error", "warn", "info", "debug", "trace">>

\* variant: fatal and trace go through the sink's built-in error and debug methods
MethodName_builtin(level) ==
    IF level = 0 THEN "error" ELSE IF level = 5 THEN "debug" ELSE LevelName[level + 1]

MethodName(level) == LevelName[level + 1]

validSdkLogLevels == {"debug", "info", "warn", "error", "none"}

\* values the SDK-log-level flag can return: the five valid ones and one other
SdkFlagValues == validSdkLogLevels \cup {"invalid-level"}

\* values the log-level flag can return: the six ordinals and one on each side
FlagLevels == (LogLevel_FATAL - 1) .. (LogLevel_TRACE + 1)

\* how the promise of a log-level variation settles: a value, or a rejection
VariationOutcomes == [ok : {TRUE}, value : FlagLevels] \cup {[ok |-> FALSE, value |-> Null]}

\* levels at which the SDK's basicLogger calls its destination
SdkMessageLevels == {"error", "warn", "info", "debug"}

OptLogKey == "opt-log-level-flag"
OptSdkKey == "opt-sdk-log-level-flag"
EnvLogKey == "env-log-level-flag"
EnvSdkKey == "env-sdk-log-level-flag"

\* the caller's context: undefined, without a service entry, with one
Contexts == {Undefined, "ctx-user", "ctx-with-service"}

\* a borrowed client is created by the caller before the facade sees it
BorrowedClient == [kind |-> "borrowed", level |-> Undefined, options |-> Undefined,
                   closes |-> 0, waits |-> 0, variations |-> 0]

\* first arguments of initialize: an SDK key, an existing client, null, a number
InitArgs == {[type |-> "string", truthy |-> TRUE, client |-> Null],
             [type |-> "object", truthy |-> TRUE, client |-> 1],
             [type |-> "object", truthy |-> FALSE, client |-> Null],
             [type |-> "number", truthy |-> TRUE, client |-> Null]}

InitOptions == [logLevelFlagKey : {Undefined, OptLogKey},
                sdkLogLevelFlagKey : {Undefined, OptSdkKey}]

\* arguments of a leveled call: strings and objects (an object is its list of keys)
Str(s) == [type |-> "string", val |-> <<s>>]
Obj(keys) == [type |-> "object", val |-> keys]

ArgLists == {<<Str("a")>>, <<Str("b"), Obj(<<"x">>)>>}

----------------------------------------------------------------------------
(* Pure helpers *)

\* JavaScript a || b on values whose only falsy member is undefined
\* variant: a built-in flag key stands in when neither operand is set
Or_builtinKey(a, b) ==
    IF a # Undefined THEN a ELSE IF b # Undefined THEN b ELSE "lambda-console-logging"

\* variant: the environment variable wins over the option
Or_envFirst(a, b) == IF b # Undefined THEN b ELSE a

Or(a, b) == IF a # Undefined THEN a ELSE b

RECURSIVE JsonMembers(_)
JsonMembers(keys) ==
    IF keys = <<>> THEN <<>>
    ELSE <<"\n", " ", " ", "\"" , Head(keys), "\"", ":", " ", "1">>
         \o (IF Len(keys) > 1 THEN <<",">> ELSE <<>>)
         \o JsonMembers(Tail(keys))

\* JSON.stringify(obj, null, 2) of an object whose members all have value 1
JsonStringify2(keys) ==
    IF keys = <<>> THEN <<"{", "}">>
    ELSE <<"{">> \o JsonMembers(keys) \o <<"\n", "}">>

\* variant: an object is rendered by String(arg) like any other argument
RenderArg_toString(arg) ==
    IF arg.type = "object" THEN <<"[object Object]">> ELSE arg.val

RenderArg(arg) ==
    IF arg.type = "object" THEN JsonStringify2(arg.val) ELSE arg.val

RECURSIVE Join(_)
Join(parts) ==
    IF parts = <<>> THEN <<>>
    ELSE IF Len(parts) = 1 THEN Head(parts)
    ELSE Head(parts) \o <<" ">> \o Join(Tail(parts))

formatMessage(args) == Join([i \in 1..Len(args) |-> RenderArg(args[i])])

\* variant: the service key of the caller's context is not looked at
ServiceKey_placeholder(ctx) == "default-service"

\* context.service?.key || 'default-service'
ServiceKey(ctx) == IF ctx = "ctx-with-service" THEN "svc-key" ELSE "default-service"

serviceContext(ctx) == [kind |-> "service", key |-> ServiceKey(ctx)]

\* variant: the comparison of shouldLog is the wrong way round
shouldLog_ge(level, currentLevel) == level >= currentLevel

\* variant: the threshold is clamped to the range of the six levels first
shouldLog_clamped(level, currentLevel) ==
    level <= (IF currentLevel < 0 THEN 0 ELSE IF currentLevel > 5 THEN 5 ELSE currentLevel)

\* the comparison of shouldLog
shouldLog_lt(level, currentLevel) == level < currentLevel

shouldLog(level, currentLevel) == level <= currentLevel

\* the level getCurrentLogLevel returns when no client is bound
NoClientLevel_info == LogLevel_INFO

NoClientLevel == LogLevel_ERROR

\* the default value getCurrentLogLevel passes to variation
VariationDefault == LogLevel_INFO

\* the level of the temporary client's basicLogger
\* variant: the temporary client is built at the SDK's usual verbosity
TempClientLevel_info == "info"

TempClientLevel == "error"

\* the default value initialize passes to the SDK-flag variation
SdkVariationDefault == "info"

----------------------------------------------------------------------------
(* Sink and client bookkeeping *)

Emit(s, level, src, msg) == Append(s, [level |-> level, src |-> src, msg |-> msg])

NewClient(kind, level, options) ==
    [kind |-> kind, level |-> level, options |-> options,
     closes |-> 0, waits |-> 0, variations |-> 0]

Bump(cs, c, field) ==
    [cs EXCEPT ![c] = [cs[c] EXCEPT ![field] = @ + 1]]

\* no SDK-flag evaluation made (yet) by the initialize call
NoEvaluation == [key |-> Undefined, ctx |-> [kind |-> Undefined, key |-> Undefined],
                 default |-> Undefined]

IdleInit == [pc |-> "idle", ctx |-> Undefined,
             options |-> [logLevelFlagKey |-> Undefined, sdkLogLevelFlagKey |-> Undefined],
             tempClient |-> Null, sdkLogLevel |-> Undefined, evaluation |-> NoEvaluation]

----------------------------------------------------------------------------
(* Construction *)

Init ==
    /\ ldClient = Null
    /\ FLAG_KEY = Undefined
    /\ SDK_LOG_LEVEL_FLAG_KEY = Undefined
    /\ context = Undefined
    /\ env \in [LD_LOG_LEVEL_FLAG_KEY : {Undefined, EnvLogKey},
                LD_SDK_LOG_LEVEL_FLAG_KEY : {Undefined, EnvSdkKey}]
    /\ clients = <<BorrowedClient>>
    /\ init = IdleInit
    /\ initResult = "none"
    /\ initTrace = <<>>
    /\ calls = <<>>
    /\ sink = <<>>
    /\ nInit = 0
    /\ nClose = 0
    /\ nDiag = 0

----------------------------------------------------------------------------
(* initialize(sdkKeyOrClient, context, options) *)

InitCanStart == init.pc = "idle"

\* a throw out of initialize: the call ends, the facade keeps what was assigned so far
Raise(result) ==
    /\ initResult' = result
    /\ init' = IdleInit

\* variant: the client is bound and initialize returns without awaiting readiness
BindAndWait_noWait(cs, c, ctx, options, temp, level, trace) ==
    /\ ldClient' = c
    /\ context' = ctx
    /\ clients' = cs
    /\ init' = IdleInit
    /\ initTrace' = trace
    /\ initResult' = "ok"

\* this.ldClient = <client c>; this.context = context;
\* await this.ldClient.waitForInitialization({timeout: 2})
BindAndWait(cs, c, ctx, options, temp, level, trace) ==
    /\ ldClient' = c
    /\ context' = ctx
    /\ clients' = Bump(cs, c, "waits")
    /\ init' = [pc |-> "realWait", ctx |-> ctx, options |-> options,
                tempClient |-> temp, sdkLogLevel |-> level, evaluation |-> init.evaluation]
    /\ initTrace' = trace \o <<"realWait">>
    /\ UNCHANGED initResult

\* the SDK-flag branch up to its first await: LaunchDarkly.init for the temporary
\* client, then await tempClient.waitForInitialization({timeout: 2})
StartBootstrap(ctx, options) ==
    /\ clients' = Bump(Append(clients, NewClient("temp", TempClientLevel, Undefined)),
                       Len(clients) + 1, "waits")
    /\ init' = [pc |-> "tempWait", ctx |-> ctx, options |-> options,
                tempClient |-> Len(clients) + 1, sdkLogLevel |-> Undefined,
                evaluation |-> NoEvaluation]
    /\ initTrace' = <<"tempInit", "tempWait">>
    /\ UNCHANGED <<ldClient, context, initResult>>

\* the level handed to LaunchDarkly.basicLogger for the real client
RealClientLevel(sdkLogLevel) == sdkLogLevel

\* Step 5: LaunchDarkly.init with ldOptions, then the common tail of initialize
ConstructReal(cs, ctx, options, temp, sdkLogLevel, trace) ==
    BindAndWait(Append(cs, NewClient("real", RealClientLevel(sdkLogLevel), options)),
                Len(cs) + 1, ctx, options, temp, sdkLogLevel,
                trace \o <<"realInit">>)

\* variant: any truthy first argument is taken for an SDK key
IsSdkKey_truthy(arg) == arg.truthy

\* typeof sdkKeyOrClient === 'string'
IsSdkKey(arg) == arg.type = "string"

\* variant: the temporary-client protocol runs whether or not an SDK flag key is set
UsesBootstrap_always(key) == TRUE

\* if (this.SDK_LOG_LEVEL_FLAG_KEY)
UsesBootstrap(key) == key # Undefined

\* variant: the null check before typeof is missing
IsClientObject_typeofOnly(arg) == arg.type = "object"

\* sdkKeyOrClient && typeof sdkKeyOrClient === 'object'
IsClientObject(arg) == arg.truthy /\ arg.type = "object"

\* variant: a failing initialize resets the facade to its unbound state
InitStart_resetsOnFailure(arg, ctx, options) ==
    /\ InitCanStart
    /\ nInit' = nInit + 1
    /\ FLAG_KEY' = Or(options.logLevelFlagKey, env.LD_LOG_LEVEL_FLAG_KEY)
    /\ SDK_LOG_LEVEL_FLAG_KEY' = Or(options.sdkLogLevelFlagKey, env.LD_SDK_LOG_LEVEL_FLAG_KEY)
    /\ IF FLAG_KEY' = Undefined
         THEN /\ Raise("configuration-error")
              /\ initTrace' = <<>>
              /\ ldClient' = Null
              /\ context' = Undefined
              /\ UNCHANGED clients
       ELSE IF IsSdkKey(arg)
         THEN IF UsesBootstrap(SDK_LOG_LEVEL_FLAG_KEY')
                THEN StartBootstrap(ctx, options)
                ELSE BindAndWait(Append(clients, NewClient("real", Undefined, options)),
                                 Len(clients) + 1, ctx, options, Null, Undefined,
                                 <<"realInit">>)
       ELSE IF IsClientObject(arg)
         THEN BindAndWait(clients, arg.client, ctx, options, Null, Undefined,
                          <<"adopt">>)
       ELSE /\ Raise("invalid-argument")
            /\ initTrace' = <<>>
            /\ ldClient' = Null
            /\ context' = Undefined
            /\ UNCHANGED clients
    /\ UNCHANGED <<env, calls, sink, nClose, nDiag>>

\* variant: the type of the first argument is checked before the flag key
InitStart_argumentFirst(arg, ctx, options) ==
    /\ InitCanStart
    /\ nInit' = nInit + 1
    /\ FLAG_KEY' = Or(options.logLevelFlagKey, env.LD_LOG_LEVEL_FLAG_KEY)
    /\ SDK_LOG_LEVEL_FLAG_KEY' = Or(options.sdkLogLevelFlagKey, env.LD_SDK_LOG_LEVEL_FLAG_KEY)
    /\ IF ~IsSdkKey(arg) /\ ~IsClientObject(arg)
         THEN /\ Raise("invalid-argument")
              /\ initTrace' = <<>>
              /\ UNCHANGED <<ldClient, context, clients>>
       ELSE IF FLAG_KEY' = Undefined
         THEN /\ Raise("configuration-error")
              /\ initTrace' = <<>>
              /\ UNCHANGED <<ldClient, context, clients>>
       ELSE IF IsSdkKey(arg)
         THEN IF UsesBootstrap(SDK_LOG_LEVEL_FLAG_KEY')
                THEN StartBootstrap(ctx, options)
                ELSE BindAndWait(Append(clients, NewClient("real", Undefined, options)),
                                 Len(clients) + 1, ctx, options, Null, Undefined,
                                 <<"realInit">>)
       ELSE BindAndWait(clients, arg.client, ctx, options, Null, Undefined,
                        <<"adopt">>)
    /\ UNCHANGED <<env, calls, sink, nClose, nDiag>>

InitStart(arg, ctx, options) ==
    /\ InitCanStart
    /\ nInit' = nInit + 1
    /\ FLAG_KEY' = Or(options.logLevelFlagKey, env.LD_LOG_LEVEL_FLAG_KEY)
    /\ SDK_LOG_LEVEL_FLAG_KEY' = Or(options.sdkLogLevelFlagKey, env.LD_SDK_LOG_LEVEL_FLAG_KEY)
    /\ IF FLAG_KEY' = Undefined
         THEN /\ Raise("configuration-error")
              /\ initTrace' = <<>>
              /\ UNCHANGED <<ldClient, context, clients>>
       ELSE IF IsSdkKey(arg)
         THEN IF UsesBootstrap(SDK_LOG_LEVEL_FLAG_KEY')
                THEN StartBootstrap(ctx, options)
                ELSE BindAndWait(Append(clients, NewClient("real", Undefined, options)),
                                 Len(clients) + 1, ctx, options, Null, Undefined,
                                 <<"realInit">>)
       ELSE IF IsClientObject(arg)
         THEN BindAndWait(clients, arg.client, ctx, options, Null, Undefined,
                          <<"adopt">>)
       ELSE /\ Raise("invalid-argument")
            /\ initTrace' = <<>>
            /\ UNCHANGED <<ldClient, context, clients>>
    /\ UNCHANGED <<env, calls, sink, nClose, nDiag>>

\* tempClient.waitForInitialization settles; on success the service context is
\* built and tempClient.variation(SDK_LOG_LEVEL_FLAG_KEY, serviceContext, 'info') awaited
TempWaitSettled(ok) ==
    /\ init.pc = "tempWait"
    /\ IF ~ok
         THEN /\ Raise("raised")
              /\ UNCHANGED <<clients, initTrace>>
       ELSE IF init.ctx = Undefined
         THEN /\ Raise("raised")       \* context.service on undefined: TypeError
              /\ UNCHANGED <<clients, initTrace>>
       ELSE /\ clients' = Bump(clients, init.tempClient, "variations")
            /\ init' = [init EXCEPT !.pc = "sdkEval",
                                     !.evaluation = [key |-> SDK_LOG_LEVEL_FLAG_KEY,
                                                     ctx |-> serviceContext(init.ctx),
                                                     default |-> SdkVariationDefault]]
            /\ initTrace' = Append(initTrace, "sdkEval")
            /\ UNCHANGED initResult
    /\ UNCHANGED <<ldClient, FLAG_KEY, SDK_LOG_LEVEL_FLAG_KEY, context, env,
                   calls, sink, nInit, nClose, nDiag>>

\* variant: the temporary client is not closed before the real one is constructed
SdkEvalSettled_skipClose(outcome) ==
    /\ init.pc = "sdkEval"
    /\ IF outcome = "throws"
         THEN /\ Raise("raised")
              /\ UNCHANGED <<ldClient, context, clients, initTrace>>
       ELSE ConstructReal(clients, init.ctx, init.options, init.tempClient,
                          outcome, initTrace)
    /\ UNCHANGED <<FLAG_KEY, SDK_LOG_LEVEL_FLAG_KEY, env, calls, sink, nInit, nClose, nDiag>>

\* variant: close is invoked on this.ldClient instead of tempClient
SdkEvalSettled_closesBound(outcome) ==
    /\ init.pc = "sdkEval"
    /\ IF outcome = "throws"
         THEN /\ Raise("raised")
              /\ UNCHANGED <<clients, initTrace>>
       ELSE /\ clients' = IF ldClient = Null THEN clients
                          ELSE Bump(clients, ldClient, "closes")
            /\ init' = [init EXCEPT !.pc = "tempClose", !.sdkLogLevel = outcome]
            /\ initTrace' = Append(initTrace, "tempClose")
            /\ UNCHANGED initResult
    /\ UNCHANGED <<ldClient, FLAG_KEY, SDK_LOG_LEVEL_FLAG_KEY, context, env,
                   calls, sink, nInit, nClose, nDiag>>

\* the SDK-flag variation settles; on a value, await tempClient.close()
SdkEvalSettled(outcome) ==
    /\ init.pc = "sdkEval"
    /\ IF outcome = "throws"
         THEN /\ Raise("raised")
              /\ UNCHANGED <<clients, initTrace>>
       ELSE /\ clients' = Bump(clients, init.tempClient, "closes")
            /\ init' = [init EXCEPT !.pc = "tempClose", !.sdkLogLevel = outcome]
            /\ initTrace' = Append(initTrace, "tempClose")
            /\ UNCHANGED initResult
    /\ UNCHANGED <<ldClient, FLAG_KEY, SDK_LOG_LEVEL_FLAG_KEY, context, env,
                   calls, sink, nInit, nClose, nDiag>>

\* tempClient.close() settles; on success the real client is constructed
TempCloseSettled(ok) ==
    /\ init.pc = "tempClose"
    /\ IF ~ok
         THEN /\ Raise("raised")
              /\ UNCHANGED <<ldClient, context, clients, initTrace>>
       ELSE ConstructReal(clients, init.ctx, init.options, init.tempClient,
                          init.sdkLogLevel, initTrace)
    /\ UNCHANGED <<FLAG_KEY, SDK_LOG_LEVEL_FLAG_KEY, env, calls, sink, nInit, nClose, nDiag>>

\* this.ldClient.waitForInitialization settles; on success the initialization
\* details are logged with this.logger.debug and initialize returns
RealWaitSettled(ok) ==
    /\ init.pc = "realWait"
    /\ IF ~ok
         THEN /\ Raise("raised")
              /\ UNCHANGED sink
       ELSE /\ sink' = Emit(sink, "debug", "init", <<>>)
            /\ initResult' = "ok"
            /\ init' = IdleInit
    /\ UNCHANGED <<ldClient, FLAG_KEY, SDK_LOG_LEVEL_FLAG_KEY, context, env, clients,
                   initTrace, calls, nInit, nClose, nDiag>>

----------------------------------------------------------------------------
(* The leveled methods: fatal, error, warn, info, debug, trace *)

\* if (await this.shouldLog(level)) this.logger.<level>(this.formatMessage(args))
\* variant: the result of shouldLog is not consulted
Gate_open(s, level, args, currentLevel) ==
    Emit(s, MethodName(level), "app", formatMessage(args))

Gate(s, level, args, currentLevel) ==
    IF shouldLog(level, currentLevel)
      THEN Emit(s, MethodName(level), "app", formatMessage(args))
      ELSE s

\* variant: the threshold answered to an earlier call on the same client is kept
\* and reused, so that a later call makes no evaluation of its own
LogStart_cached(level, args) ==
    /\ LET seen == {j \in 1..Len(calls) :
                       calls[j].pc = "done" /\ calls[j].client = ldClient}
       IN IF ldClient = Null
            THEN /\ calls' = Append(calls,
                       [pc |-> "done", level |-> level, args |-> args,
                        client |-> Null, key |-> Undefined, ctx |-> Undefined,
                        default |-> Null, evaluations |-> 0,
                        currentLevel |-> NoClientLevel,
                        emitted |-> shouldLog(level, NoClientLevel)])
                 /\ sink' = Gate(sink, level, args, NoClientLevel)
                 /\ UNCHANGED clients
            ELSE IF seen # {}
              THEN LET j == CHOOSE j \in seen : \A k \in seen : k <= j
                       t == calls[j].currentLevel
                   IN /\ calls' = Append(calls,
                            [pc |-> "done", level |-> level, args |-> args,
                             client |-> ldClient, key |-> FLAG_KEY, ctx |-> context,
                             default |-> VariationDefault, evaluations |-> 0,
                             currentLevel |-> t, emitted |-> shouldLog(level, t)])
                      /\ sink' = Gate(sink, level, args, t)
                      /\ UNCHANGED clients
              ELSE /\ calls' = Append(calls,
                         [pc |-> "evaluating", level |-> level, args |-> args,
                          client |-> ldClient, key |-> FLAG_KEY, ctx |-> context,
                          default |-> VariationDefault, evaluations |-> 1,
                          currentLevel |-> Null, emitted |-> FALSE])
                   /\ sink' = Emit(sink, "debug", "evaluating", <<>>)
                   /\ clients' = Bump(clients, ldClient, "variations")
    /\ UNCHANGED <<ldClient, FLAG_KEY, SDK_LOG_LEVEL_FLAG_KEY, context, env,
                   init, initResult, initTrace, nInit, nClose, nDiag>>

\* a leveled call up to its first suspension.  With no client bound
\* getCurrentLogLevel returns at once and the call is gated by NoClientLevel;
\* otherwise the flag evaluation is announced with this.logger.debug and
\* this.ldClient.variation(this.FLAG_KEY, this.context, LogLevel.INFO) is awaited
LogStart(level, args) ==
    /\ IF ldClient = Null
         THEN /\ calls' = Append(calls,
                    [pc |-> "done", level |-> level, args |-> args,
                     client |-> Null, key |-> Undefined, ctx |-> Undefined,
                     default |-> Null, evaluations |-> 0,
                     currentLevel |-> NoClientLevel,
                     emitted |-> shouldLog(level, NoClientLevel)])
              /\ sink' = Gate(sink, level, args, NoClientLevel)
              /\ UNCHANGED clients
         ELSE /\ calls' = Append(calls,
                    [pc |-> "evaluating", level |-> level, args |-> args,
                     client |-> ldClient, key |-> FLAG_KEY, ctx |-> context,
                     default |-> VariationDefault, evaluations |-> 1,
                     currentLevel |-> Null, emitted |-> FALSE])
              /\ sink' = Emit(sink, "debug", "evaluating", <<>>)
              /\ clients' = Bump(clients, ldClient, "variations")
    /\ UNCHANGED <<ldClient, FLAG_KEY, SDK_LOG_LEVEL_FLAG_KEY, context, env,
                   init, initResult, initTrace, nInit, nClose, nDiag>>

\* variant: a rejected evaluation is made again instead of being propagated
LogEvalSettled_retry(i, outcome) ==
    /\ i \in 1..Len(calls)
    /\ calls[i].pc = "evaluating"
    /\ IF ~outcome.ok
         THEN /\ calls' = [calls EXCEPT ![i].evaluations = @ + 1]
              /\ clients' = Bump(clients, calls[i].client, "variations")
              /\ UNCHANGED sink
         ELSE /\ calls' = [calls EXCEPT ![i].pc = "done",
                                        ![i].currentLevel = outcome.value,
                                        ![i].emitted = shouldLog(calls[i].level, outcome.value)]
              /\ sink' = Gate(Emit(sink, "debug", "evaluated", <<>>),
                              calls[i].level, calls[i].args, outcome.value)
              /\ UNCHANGED clients
    /\ UNCHANGED <<ldClient, FLAG_KEY, SDK_LOG_LEVEL_FLAG_KEY, context, env,
                   init, initResult, initTrace, nInit, nClose, nDiag>>

\* variant: the threshold is kept in one place shared by the calls in flight, so a
\* call is gated by the value most recently answered to any call
LogEvalSettled_shared(i, outcome) ==
    /\ i \in 1..Len(calls)
    /\ calls[i].pc = "evaluating"
    /\ IF ~outcome.ok
         THEN /\ calls' = [calls EXCEPT ![i].pc = "raised"]
              /\ UNCHANGED sink
         ELSE LET others == {j \in 1..Len(calls) : j # i /\ calls[j].pc = "done"}
                  t == IF others = {} THEN outcome.value
                       ELSE calls[CHOOSE j \in others : TRUE].currentLevel
              IN /\ calls' = [calls EXCEPT ![i].pc = "done",
                                           ![i].currentLevel = outcome.value,
                                           ![i].emitted = shouldLog(calls[i].level, t)]
                 /\ sink' = Gate(Emit(sink, "debug", "evaluated", <<>>),
                                 calls[i].level, calls[i].args, t)
    /\ UNCHANGED <<ldClient, FLAG_KEY, SDK_LOG_LEVEL_FLAG_KEY, context, env, clients,
                   init, initResult, initTrace, nInit, nClose, nDiag>>

\* the variation of call i settles: a rejection propagates out of the leveled
\* method; a value is logged with this.logger.debug, returned, and gates the call
LogEvalSettled(i, outcome) ==
    /\ i \in 1..Len(calls)
    /\ calls[i].pc = "evaluating"
    /\ IF ~outcome.ok
         THEN /\ calls' = [calls EXCEPT ![i].pc = "raised"]
              /\ UNCHANGED sink
         ELSE /\ calls' = [calls EXCEPT ![i].pc = "done",
                                        ![i].currentLevel = outcome.value,
                                        ![i].emitted = shouldLog(calls[i].level, outcome.value)]
              /\ sink' = Gate(Emit(sink, "debug", "evaluated", <<>>),
                              calls[i].level, calls[i].args, outcome.value)
    /\ UNCHANGED <<ldClient, FLAG_KEY, SDK_LOG_LEVEL_FLAG_KEY, context, env, clients,
                   init, initResult, initTrace, nInit, nClose, nDiag>>

----------------------------------------------------------------------------
(* close() *)

\* variant: close() also forgets the client it closed
Close_unbinds ==
    /\ nClose' = nClose + 1
    /\ clients' = IF ldClient = Null THEN clients ELSE Bump(clients, ldClient, "closes")
    /\ ldClient' = Null
    /\ UNCHANGED <<FLAG_KEY, SDK_LOG_LEVEL_FLAG_KEY, context, env,
                   init, initResult, initTrace, calls, sink, nInit, nDiag>>

\* variant: close() releases only a client the facade constructed
Close_ownedOnly ==
    /\ nClose' = nClose + 1
    /\ clients' = IF ldClient = Null \/ clients[ldClient].kind = "borrowed"
                    THEN clients ELSE Bump(clients, ldClient, "closes")
    /\ UNCHANGED <<ldClient, FLAG_KEY, SDK_LOG_LEVEL_FLAG_KEY, context, env,
                   init, initResult, initTrace, calls, sink, nInit, nDiag>>

\* await this.ldClient?.close()
Close ==
    /\ nClose' = nClose + 1
    /\ clients' = IF ldClient = Null THEN clients ELSE Bump(clients, ldClient, "closes")
    /\ UNCHANGED <<ldClient, FLAG_KEY, SDK_LOG_LEVEL_FLAG_KEY, context, env,
                   init, initResult, initTrace, calls, sink, nInit, nDiag>>

----------------------------------------------------------------------------
(* The destination of the real client's basicLogger *)

\* variant: every SDK message is forwarded at info, whatever its level
Destination_info(c, level) ==
    /\ c \in 1..Len(clients)
    /\ clients[c].kind = "real"
    /\ clients[c].level # Undefined
    /\ nDiag' = nDiag + 1
    /\ sink' = Emit(sink, "info", "sdk", <<>>)
    /\ UNCHANGED <<ldClient, FLAG_KEY, SDK_LOG_LEVEL_FLAG_KEY, context, env, clients,
                   init, initResult, initTrace, calls, nInit, nClose>>

\* destination: (level, message) => this.logger[level](...)
\* called by the SDK of a client constructed with ldOptions
Destination(c, level) ==
    /\ c \in 1..Len(clients)
    /\ clients[c].kind = "real"
    /\ clients[c].level # Undefined
    /\ nDiag' = nDiag + 1
    /\ sink' = Emit(sink, level, "sdk", <<>>)
    /\ UNCHANGED <<ldClient, FLAG_KEY, SDK_LOG_LEVEL_FLAG_KEY, context, env, clients,
                   init, initResult, initTrace, calls, nInit, nClose>>

----------------------------------------------------------------------------
(* Specifications.  The facade's operations are the same in all of them;   *)
(* they differ in the inputs the environment supplies and in how many      *)
(* calls of each kind it makes.                                           *)

\* SpecBoot: initialize with every input and every collaborator outcome,
\* followed or interleaved by close and SDK diagnostics

NextBoot ==
    \/ /\ nInit < MaxBootInits
       /\ \E arg \in InitArgs, ctx \in Contexts, options \in InitOptions :
             InitStart(arg, ctx, options)
    \/ \E ok \in BOOLEAN : TempWaitSettled(ok)
    \/ \E outcome \in SdkFlagValues \cup {"throws"} : SdkEvalSettled(outcome)
    \/ \E ok \in BOOLEAN : TempCloseSettled(ok)
    \/ \E ok \in BOOLEAN : RealWaitSettled(ok)
    \/ /\ nClose < MaxBootCloses
       /\ Close
    \/ /\ nDiag < MaxDiag
       /\ \E c \in 1..Len(clients), level \in SdkMessageLevels : Destination(c, level)

SpecBoot == Init /\ [][NextBoot]_vars

\* SpecLife: several initialize and close calls on one facade, with the flag
\* keys given in the options only
InitLife ==
    /\ Init
    /\ env = [LD_LOG_LEVEL_FLAG_KEY |-> Undefined, LD_SDK_LOG_LEVEL_FLAG_KEY |-> Undefined]

LifeArgs == {a \in InitArgs : a.type # "number"}
LifeContexts == {"ctx-user", "ctx-with-service"}
LifeSdkOutcomes == {"debug", "invalid-level", "throws"}
LifeOutcomes == {[ok |-> TRUE, value |-> LogLevel_WARN], [ok |-> FALSE, value |-> Null]}

NextLife ==
    \/ /\ nInit < MaxInits
       /\ \E arg \in LifeArgs, ctx \in LifeContexts, options \in InitOptions :
             InitStart(arg, ctx, options)
    \/ \E ok \in BOOLEAN : TempWaitSettled(ok)
    \/ \E outcome \in LifeSdkOutcomes : SdkEvalSettled(outcome)
    \/ \E ok \in BOOLEAN : TempCloseSettled(ok)
    \/ \E ok \in BOOLEAN : RealWaitSettled(ok)
    \/ /\ Len(calls) < MaxLifeLogs
       /\ LogStart(LogLevel_WARN, <<Str("a")>>)
    \/ \E i \in 1..Len(calls), outcome \in LifeOutcomes : LogEvalSettled(i, outcome)
    \/ /\ nClose < MaxCloses
       /\ Close

SpecLife == InitLife /\ [][NextLife]_vars

\* Spec: the leveled methods at every level, with every value the log-level
\* flag can return, on a facade that is initialized with a key or a client
InitGate ==
    /\ Init
    /\ env = [LD_LOG_LEVEL_FLAG_KEY |-> EnvLogKey, LD_SDK_LOG_LEVEL_FLAG_KEY |-> Undefined]

GateArgs == {a \in InitArgs : a.truthy /\ a.type \in {"string", "object"}}
GateOptions == [logLevelFlagKey |-> Undefined, sdkLogLevelFlagKey |-> Undefined]

Next ==
    \/ /\ nInit < MaxGateInits
       /\ \E arg \in GateArgs : InitStart(arg, "ctx-user", GateOptions)
    \/ \E ok \in BOOLEAN : RealWaitSettled(ok)
    \/ /\ Len(calls) < MaxLogs
       /\ \E level \in LogLevel, args \in ArgLists : LogStart(level, args)
    \/ \E i \in 1..Len(calls), outcome \in VariationOutcomes : LogEvalSettled(i, outcome)
    \/ /\ nClose < MaxGateCloses
       /\ Close

Spec == InitGate /\ [][Next]_vars

\* SpecCalls: two leveled calls, one after the other or both in flight, on a
\* facade that adopts a client; the flag may answer each evaluation differently
CallLevels == {LogLevel_ERROR, LogLevel_WARN, LogLevel_DEBUG}
CallOutcomes == {[ok |-> TRUE, value |-> LogLevel_ERROR],
                 [ok |-> TRUE, value |-> LogLevel_INFO],
                 [ok |-> FALSE, value |-> Null]}
CallArg == CHOOSE a \in InitArgs : IsClientObject(a)

NextCalls ==
    \/ /\ nInit < MaxCallInits
       /\ InitStart(CallArg, "ctx-user", GateOptions)
    \/ \E ok \in BOOLEAN : RealWaitSettled(ok)
    \/ /\ Len(calls) < MaxCallLogs
       /\ \E level \in CallLevels : LogStart(level, <<Str("a")>>)
    \/ \E i \in 1..Len(calls), outcome \in CallOutcomes : LogEvalSettled(i, outcome)
    \/ /\ nClose < MaxCallCloses
       /\ Close

SpecCalls == InitGate /\ [][NextCalls]_vars

\* SpecDiag: a facade that builds its own client through the SDK-flag protocol,
\* the messages that client's logger forwards, and a leveled call beside them
InitDiag ==
    /\ Init
    /\ env = [LD_LOG_LEVEL_FLAG_KEY |-> EnvLogKey, LD_SDK_LOG_LEVEL_FLAG_KEY |-> EnvSdkKey]

DiagArg == CHOOSE a \in InitArgs : IsSdkKey(a)
DiagSdkOutcomes == {"debug", "error", "throws"}

NextDiag ==
    \/ /\ nInit < MaxDiagInits
       /\ InitStart(DiagArg, "ctx-user", GateOptions)
    \/ \E ok \in BOOLEAN : TempWaitSettled(ok)
    \/ \E outcome \in DiagSdkOutcomes : SdkEvalSettled(outcome)
    \/ \E ok \in BOOLEAN : TempCloseSettled(ok)
    \/ \E ok \in BOOLEAN : RealWaitSettled(ok)
    \/ /\ Len(calls) < MaxDiagLogs
       /\ LogStart(LogLevel_WARN, <<Str("a")>>)
    \/ \E i \in 1..Len(calls), outcome \in CallOutcomes : LogEvalSettled(i, outcome)
    \/ /\ nDiag < MaxDiagMessages
       /\ \E c \in 1..Len(clients), level \in SdkMessageLevels : Destination(c, level)

SpecDiag == InitDiag /\ [][NextDiag]_vars

\* SpecFormat: leveled calls that pass the gate of a facade with no client, over
\* every argument list of up to MaxArgs strings and objects
FormatArgs == {Str("a"), Str("b"), Obj(<<>>), Obj(<<"x">>)}
FormatArgLists == UNION {[1..n -> FormatArgs] : n \in 0..MaxArgs}

NextFormat ==
    /\ Len(calls) < MaxFormatCalls
    /\ \E level \in {LogLevel_FATAL, LogLevel_ERROR}, args \in FormatArgLists :
          LogStart(level, args)

SpecFormat == Init /\ [][NextFormat]_vars

\* SpecMix: a first initialize with one flag key and context, further initialize
\* calls with another key and context (one of them with a null first argument),
\* and a leveled call at any point among their steps
MixFirstOptions == [logLevelFlagKey |-> OptLogKey, sdkLogLevelFlagKey |-> Undefined]
MixLaterArgs == {a \in InitArgs : IsSdkKey(a) \/ ~a.truthy}

NextMix ==
    \/ /\ nInit = 0
       /\ InitStart(DiagArg, "ctx-user", MixFirstOptions)
    \/ /\ nInit >= 1
       /\ nInit < MaxMixInits
       /\ \E arg \in MixLaterArgs : InitStart(arg, "ctx-with-service", GateOptions)
    \/ \E ok \in BOOLEAN : TempWaitSettled(ok)
    \/ \E outcome \in DiagSdkOutcomes : SdkEvalSettled(outcome)
    \/ \E ok \in BOOLEAN : TempCloseSettled(ok)
    \/ \E ok \in BOOLEAN : RealWaitSettled(ok)
    \/ /\ Len(calls) < MaxMixLogs
       /\ LogStart(LogLevel_WARN, <<Str("a")>>)
    \/ \E i \in 1..Len(calls), outcome \in LifeOutcomes : LogEvalSettled(i, outcome)

SpecMix == InitDiag /\ [][NextMix]_vars

----------------------------------------------------------------------------
(* Properties *)

AppCount(s) == Cardinality({k \in 1..Len(s) : s[k].src = "app"})

\* the message of call c is the entry just handed to the sink, and the only new one
\* from the application
Handed(c, old, new) ==
    /\ Len(new) > Len(old)
    /\ new[Len(new)] = [level |-> MethodName(c.level), src |-> "app",
                        msg |-> formatMessage(c.args)]
    /\ AppCount(new) = AppCount(old) + 1

\* C1: with a client bound, when the log-level flag returns a threshold t in 0..5
\* to a leveled call at level L, the call hands its formatted message to the sink
\* at the level's method if and only if L <= t; otherwise no application message
\* reaches the sink.
C1_EmitsIffLevelAtMostThreshold ==
    [][\A i \in 1..Len(calls) :
          (/\ calls[i].pc = "evaluating"
           /\ calls[i].client # Null
           /\ calls'[i].pc = "done"
           /\ calls'[i].currentLevel \in LogLevel)
          => /\ Handed(calls[i], sink, sink') <=> calls[i].level <= calls'[i].currentLevel
             /\ ~Handed(calls[i], sink, sink') => AppCount(sink') = AppCount(sink)]_vars

\* a call at INFO was answered with threshold INFO and its message reached the sink
C1_Witness ==
    \E i \in 1..Len(calls) :
        /\ calls[i].pc = "done"
        /\ calls[i].client # Null
        /\ calls[i].level = LogLevel_INFO
        /\ calls[i].currentLevel = LogLevel_INFO
        /\ sink # <<>>
        /\ sink[Len(sink)].src = "app"
        /\ sink[Len(sink)].level = "info"

\* C2: a leveled call started while no client is bound completes at once without
\* raising, calls no collaborator (no flag evaluation) and is gated at ERROR:
\* fatal and error hand their message to the sink, the other four levels hand
\* nothing to it.
C2_NoClientGatesAtError ==
    [][(ldClient = Null /\ Len(calls') = Len(calls) + 1)
          => LET c == calls'[Len(calls')] IN
             /\ c.pc = "done"
             /\ c.evaluations = 0
             /\ clients' = clients
             /\ IF c.level \in {LogLevel_FATAL, LogLevel_ERROR}
                  THEN Handed(c, sink, sink') /\ Len(sink') = Len(sink) + 1
                  ELSE sink' = sink]_vars

\* on a facade never initialized, an error call has handed its message to the sink
C2_Witness ==
    /\ nInit = 0
    /\ ldClient = Null
    /\ \E i \in 1..Len(calls) :
          /\ calls[i].client = Null
          /\ calls[i].pc = "done"
          /\ calls[i].level = LogLevel_ERROR
          /\ sink # <<>>
          /\ sink[Len(sink)].level = "error"
          /\ sink[Len(sink)].src = "app"

\* C3: a leveled call whose flag evaluation raises does not raise to its caller.
C3_EvaluationFailureNeverRaises ==
    \A i \in 1..Len(calls) : calls[i].pc # "raised"

IsPrefix(a, b) == Len(a) <= Len(b) /\ a = SubSeq(b, 1, Len(a))

\* the collaborator calls of the bootstrap protocol, in the order of the code
BootTrace == <<"tempInit", "tempWait", "sdkEval", "tempClose", "realInit", "realWait">>

Constructions(trace) ==
    Cardinality({k \in 1..Len(trace) : trace[k] \in {"tempInit", "realInit"}})

Bootstrapping == initTrace # <<>> /\ initTrace[1] = "tempInit"

\* messages the facade itself handed to the sink at warn level during initialize
InitWarnings == {k \in 1..Len(sink) : sink[k].level = "warn" /\ sink[k].src \notin {"app", "sdk"}}

\* C4: a temporary bootstrap client has had close invoked on it exactly once by
\* the time the initialize call that constructed it has returned or raised.
C4_TempClientClosedExactlyOnce ==
    \A c \in 1..Len(clients) :
        (clients[c].kind = "temp" /\ c # init.tempClient) => clients[c].closes = 1

\* C5: an initialize call that constructs a client with an SDK-log-level flag key
\* resolved takes the bootstrap path, and on that path the collaborator calls
\* occur in the order temporary client constructed, its readiness awaited, SDK
\* flag evaluated, temporary client closed, real client constructed, real client
\* readiness awaited; a real client built by the bootstrap is constructed right
\* after its temporary client, which has then been closed; clients are constructed
\* only at the two construction events, so a completed bootstrap constructed two.
C5_BootstrapOrder ==
    [][/\ (/\ nInit' = nInit + 1
           /\ SDK_LOG_LEVEL_FLAG_KEY' # Undefined
           /\ Len(clients') > Len(clients))
          => initTrace' = SubSeq(BootTrace, 1, 2)
       /\ Bootstrapping' => IsPrefix(initTrace', BootTrace)
       /\ \A c \in 1..Len(clients') :
             (clients'[c].kind = "real" /\ clients'[c].level # Undefined)
             => /\ c > 1
                /\ clients'[c - 1].kind = "temp"
                /\ clients'[c - 1].closes = 1
       /\ (Bootstrapping' /\ init'.pc = "idle" /\ initResult' = "ok")
          => initTrace' = BootTrace /\ Constructions(initTrace') = 2
       /\ Len(clients') = Len(clients) + Constructions(initTrace')
                          - (IF nInit' = nInit THEN Constructions(initTrace) ELSE 0)]_vars

\* an initialize call has completed the whole bootstrap protocol
C5_Witness ==
    /\ init.pc = "idle"
    /\ initResult = "ok"
    /\ initTrace = BootTrace
    /\ ldClient # Null
    /\ clients[ldClient].kind = "real"
    /\ clients[ldClient - 1].kind = "temp"

\* C6: when the SDK-log-level flag returned a value outside the valid set, the
\* real client's diagnostic logger is configured at "error" and the facade has
\* handed exactly one warning to the sink.
C6_InvalidSdkLevelFallsBackToError ==
    (/\ init.pc = "realWait"
     /\ init.tempClient # Null
     /\ init.sdkLogLevel \notin validSdkLogLevels)
    => /\ clients[ldClient].level = "error"
       /\ Cardinality(InitWarnings) = 1

\* C7: a valid value returned by the SDK-log-level flag is handed verbatim to the
\* diagnostic-logger factory of the real client with no warning, and the level
\* handed to that factory is always one of debug, info, warn, error, none.
C7_RealClientLevelAlwaysValid ==
    /\ (/\ init.pc = "realWait"
        /\ init.tempClient # Null
        /\ init.sdkLogLevel \in validSdkLogLevels)
       => /\ clients[ldClient].level = init.sdkLogLevel
          /\ InitWarnings = {}
    /\ \A c \in 1..Len(clients) :
          (clients[c].kind = "real" /\ clients[c].level # Undefined)
          => clients[c].level \in validSdkLogLevels

C9_CloseClosesSuppliedClient ==
    [][(/\ nClose' = nClose + 1
        /\ ldClient # Null
        /\ clients[ldClient].kind = "borrowed")
       => clients'[ldClient].closes = clients[ldClient].closes + 1]_vars

\* initialize with an existing client completed and close() then closed that client
C9_Witness ==
    /\ init.pc = "idle"
    /\ initResult = "ok"
    /\ nInit = 1
    /\ nClose = 1
    /\ ldClient # Null
    /\ clients[ldClient].kind = "borrowed"
    /\ clients[ldClient].closes = 1

\* C10: right after a close() call made while no initialize is in flight, every
\* real client the facade constructed has been closed exactly once.
C10_RealClientsClosedExactlyOnce ==
    [][(nClose' = nClose + 1 /\ init.pc = "idle")
       => \A c \in 1..Len(clients') :
             clients'[c].kind = "real" => clients'[c].closes = 1]_vars

\* the sources of the entries of the sink, in order
Sources(s) == [k \in 1..Len(s) |-> s[k].src]

\* C11: the threshold is never cached.  Every leveled call started while a client
\* is bound makes a flag evaluation of its own, whatever earlier calls were
\* answered, and is gated by the value that evaluation returns: when the flag
\* answers two consecutive calls differently, the second is gated by the new value.
C11_EachCallGatedByItsOwnEvaluation ==
    [][\A i \in 1..Len(calls') :
          /\ (i > Len(calls) /\ ldClient # Null)
                => /\ calls'[i].pc = "evaluating"
                   /\ calls'[i].evaluations = 1
                   /\ calls'[i].client = ldClient
                   /\ clients'[ldClient].variations = clients[ldClient].variations + 1
          /\ (i <= Len(calls) /\ calls[i].pc = "evaluating" /\ calls'[i].pc = "done")
                => /\ calls'[i].evaluations = 1
                   /\ Handed(calls[i], sink, sink')
                        <=> calls[i].level <= calls'[i].currentLevel
                   /\ ~Handed(calls[i], sink, sink') => AppCount(sink') = AppCount(sink)]_vars

\* two warn calls ran one after the other on the same client: the flag answered
\* ERROR to the first, which was dropped, then INFO to the second, which was emitted
C11_Witness ==
    /\ Len(calls) = 2
    /\ calls[1].client # Null
    /\ calls[2].client = calls[1].client
    /\ calls[1].pc = "done" /\ calls[2].pc = "done"
    /\ calls[1].level = LogLevel_WARN /\ calls[2].level = LogLevel_WARN
    /\ calls[1].currentLevel = LogLevel_ERROR /\ ~calls[1].emitted
    /\ calls[2].currentLevel = LogLevel_INFO /\ calls[2].emitted
    /\ Len(sink) >= 5
    /\ SubSeq(Sources(sink), Len(sink) - 4, Len(sink))
          = <<"evaluating", "evaluated", "evaluating", "evaluated", "app">>

\* a completed call whose level exceeds the threshold resolved for it
Dropped(c) == c.pc = "done" /\ c.level > c.currentLevel

Passed(c) == c.pc = "done" /\ c.level <= c.currentLevel

\* the sink level named after each leveled method
SinkLevelOf(level) ==
    CASE level = LogLevel_FATAL -> "fatal"
      [] level = LogLevel_ERROR -> "error"
      [] level = LogLevel_WARN -> "warn"
      [] level = LogLevel_INFO -> "info"
      [] level = LogLevel_DEBUG -> "debug"
      [] level = LogLevel_TRACE -> "trace"

\* C13: when a leveled call passes the gate, its formatted message is handed to
\* the sink at the level named after the method (fatal->fatal, error->error,
\* warn->warn, info->info, debug->debug, trace->trace), and it is handed after the
\* gating evaluation of that same call: a call on a bound client hands nothing
\* from the application when it starts, and hands its message in the step in
\* which its own evaluation settles, after the line that reports the evaluation.
C13_PassedCallEmitsAtMethodLevelAfterEvaluation ==
    [][\A i \in 1..Len(calls') :
          LET entry == [level |-> SinkLevelOf(calls'[i].level), src |-> "app",
                        msg |-> formatMessage(calls'[i].args)]
          IN /\ (i > Len(calls) /\ calls'[i].pc = "evaluating")
                   => AppCount(sink') = AppCount(sink)
             /\ (i > Len(calls) /\ Passed(calls'[i]))
                   => sink' = Append(sink, entry)
             /\ (i <= Len(calls) /\ calls[i].pc = "evaluating" /\ Passed(calls'[i]))
                   => sink' = sink \o <<[level |-> "debug", src |-> "evaluated",
                                         msg |-> <<>>], entry>>]_vars

\* a trace call has passed the gate on a bound client: the sink ends with the
\* announcement of its evaluation, the report of it, then the message at trace
C13_Witness ==
    \E i \in 1..Len(calls) :
        /\ Passed(calls[i])
        /\ calls[i].client # Null
        /\ calls[i].level = LogLevel_TRACE
        /\ Len(sink) >= 3
        /\ sink[Len(sink)].level = "trace"
        /\ SubSeq(Sources(sink), Len(sink) - 2, Len(sink))
             = <<"evaluating", "evaluated", "app">>

\* C14: whenever a leveled call evaluates the log-level flag, the fallback value
\* it passes to the flag service is ERROR (1), so that an absent flag yields the
\* threshold ERROR.
C14_FallbackIsError ==
    \A i \in 1..Len(calls) :
        calls[i].evaluations > 0 => calls[i].default = LogLevel_ERROR

\* a first argument of initialize that is neither a string nor a non-null object
NeitherKeyNorClient(arg) ==
    /\ arg.type # "string"
    /\ ~(arg.type = "object" /\ arg.truthy)

\* no log-level flag key comes from the options or from the environment
NoLogKey(options) ==
    /\ options.logLevelFlagKey = Undefined
    /\ env.LD_LOG_LEVEL_FLAG_KEY = Undefined

\* the initialize call of this step ends at once with the given error, having
\* constructed no client and bound none
FailsWithoutClient(result) ==
    /\ initResult' = result
    /\ init'.pc = "idle"
    /\ clients' = clients
    /\ ldClient' = ldClient
    /\ initTrace' = <<>>

\* C15 (as stated): initialize called with a first argument that is neither a
\* string nor a non-null object (e.g. null) fails with the invalid-argument error
\* and constructs no client, temporary or real.
C15_InvalidArgumentAlwaysInvalidArgumentError ==
    [][\A arg \in InitArgs, ctx \in Contexts, options \in InitOptions :
          (NeitherKeyNorClient(arg) /\ InitStart(arg, ctx, options))
          => FailsWithoutClient("invalid-argument")]_vars

\* C15 (amended): initialize called with a first argument that is neither a
\* string nor a non-null object fails at once and constructs no client, temporary
\* or real: with the invalid-argument error when a log-level flag key is
\* resolvable, with the configuration error when none is.
C15_InvalidArgumentFailsWithoutClient ==
    [][\A arg \in InitArgs, ctx \in Contexts, options \in InitOptions :
          (NeitherKeyNorClient(arg) /\ InitStart(arg, ctx, options))
          => FailsWithoutClient(IF NoLogKey(options) THEN "configuration-error"
                                                     ELSE "invalid-argument")]_vars

\* an initialize call has failed with the invalid-argument error while a
\* log-level flag key was resolved, and the only client in existence is the one
\* the application built
C15_Witness ==
    /\ initResult = "invalid-argument"
    /\ FLAG_KEY # Undefined
    /\ nInit = 1
    /\ ldClient = Null
    /\ clients = <<BorrowedClient>>

\* C16: initialize called with a credential when no log-level flag key is
\* resolvable (neither the option nor the environment variable) fails with the
\* configuration error, and no client is constructed.
C16_CredentialWithoutLogKeyFails ==
    [][\A arg \in InitArgs, ctx \in Contexts, options \in InitOptions :
          (arg.type = "string" /\ NoLogKey(options) /\ InitStart(arg, ctx, options))
          => FailsWithoutClient("configuration-error")]_vars

\* an initialize call has failed with the configuration error: no flag key was
\* resolved and the only client in existence is the one the application built
C16_Witness ==
    /\ initResult = "configuration-error"
    /\ FLAG_KEY = Undefined
    /\ env.LD_LOG_LEVEL_FLAG_KEY = Undefined
    /\ nInit = 1
    /\ ldClient = Null
    /\ clients = <<BorrowedClient>>

\* a first argument of initialize that is a pre-built client
PreBuilt(arg) == arg.type = "object" /\ arg.truthy

\* the step of initialize adopts the client of arg as it is and constructs nothing
Adopts(arg) ==
    /\ ldClient' = arg.client
    /\ Len(clients') = Len(clients)
    /\ clients' = [clients EXCEPT ![arg.client].waits = @ + 1]
    /\ initTrace' = <<"adopt", "realWait">>

\* while an initialize call that began with the given event is in flight, no step
\* constructs a client, evaluates a flag or runs a bootstrap step
NoBootstrapAfter(first) ==
    (init.pc # "idle" /\ initTrace # <<>> /\ initTrace[1] = first)
    => /\ Len(clients') = Len(clients)
       /\ \A c \in 1..Len(clients) : clients'[c].variations = clients[c].variations
       /\ initTrace' = initTrace
       /\ init'.pc \in {"realWait", "idle"}

\* C17 (as stated): initialize called with a pre-built client object binds
\* exactly that object as the facade's client, constructs no client and runs no
\* bootstrap step (no temporary client, no SDK-flag evaluation), even when an
\* SDK-log-level flag key is configured.
C17_PreBuiltClientAlwaysAdopted ==
    [][/\ \A arg \in InitArgs, ctx \in Contexts, options \in InitOptions :
             (PreBuilt(arg) /\ InitStart(arg, ctx, options)) => Adopts(arg)
       /\ NoBootstrapAfter("adopt")]_vars

\* C17 (amended): initialize called with a pre-built client object while a
\* log-level flag key is resolvable binds exactly that object as the facade's
\* client, constructs no client and runs no bootstrap step, even when an
\* SDK-log-level flag key is configured; with no log-level flag key resolvable
\* it fails with the configuration error and binds nothing.
C17_PreBuiltClientAdoptedWhenLogKey ==
    [][/\ \A arg \in InitArgs, ctx \in Contexts, options \in InitOptions :
             (PreBuilt(arg) /\ InitStart(arg, ctx, options))
             => IF NoLogKey(options) THEN FailsWithoutClient("configuration-error")
                                     ELSE Adopts(arg)
       /\ NoBootstrapAfter("adopt")]_vars

\* initialize has completed on the application's client with an SDK-log-level
\* flag key configured: that client is bound, it is the only client, and it was
\* asked to wait for readiness and for nothing else
C17_Witness ==
    /\ initResult = "ok"
    /\ SDK_LOG_LEVEL_FLAG_KEY # Undefined
    /\ ldClient = 1
    /\ initTrace = <<"adopt", "realWait">>
    /\ Len(clients) = 1
    /\ clients[1].waits = 1
    /\ clients[1].variations = 0

\* no SDK-log-level flag key comes from the options or from the environment
NoSdkKey(options) ==
    /\ options.sdkLogLevelFlagKey = Undefined
    /\ env.LD_SDK_LOG_LEVEL_FLAG_KEY = Undefined

\* the step of initialize constructs one client with the caller's options, binds
\* it and waits for it
ConstructsDirectly(options) ==
    /\ Len(clients') = Len(clients) + 1
    /\ SubSeq(clients', 1, Len(clients)) = clients
    /\ clients'[Len(clients')] = [kind |-> "real", level |-> Undefined,
                                  options |-> options, closes |-> 0, waits |-> 1,
                                  variations |-> 0]
    /\ ldClient' = Len(clients')
    /\ initTrace' = <<"realInit", "realWait">>

\* C18 (as stated): initialize called with a credential when no SDK-log-level
\* flag key is configured (neither option nor process-wide default) skips the
\* bootstrap protocol: exactly one client is constructed, with the
\* caller-supplied options, no temporary client is created and no SDK flag is
\* evaluated.
C18_CredentialWithoutSdkKeyAlwaysConstructsOne ==
    [][/\ \A arg \in InitArgs, ctx \in Contexts, options \in InitOptions :
             (arg.type = "string" /\ NoSdkKey(options) /\ InitStart(arg, ctx, options))
             => ConstructsDirectly(options)
       /\ NoBootstrapAfter("realInit")]_vars

\* C18 (amended): initialize called with a credential when a log-level flag key
\* is resolvable and no SDK-log-level flag key is configured skips the bootstrap
\* protocol: exactly one client is constructed, with the caller-supplied
\* options, no temporary client is created and no SDK flag is evaluated; with no
\* log-level flag key resolvable it fails with the configuration error and
\* constructs nothing.
C18_CredentialWithoutSdkKeyConstructsOneWhenLogKey ==
    [][/\ \A arg \in InitArgs, ctx \in Contexts, options \in InitOptions :
             (arg.type = "string" /\ NoSdkKey(options) /\ InitStart(arg, ctx, options))
             => IF NoLogKey(options) THEN FailsWithoutClient("configuration-error")
                                     ELSE ConstructsDirectly(options)
       /\ NoBootstrapAfter("realInit")]_vars

\* initialize has completed with a credential and no SDK-log-level flag key: one
\* client was constructed, with the caller's options, and it is the bound one
C18_Witness ==
    /\ initResult = "ok"
    /\ SDK_LOG_LEVEL_FLAG_KEY = Undefined
    /\ initTrace = <<"realInit", "realWait">>
    /\ Len(clients) = 2
    /\ ldClient = 2
    /\ clients[2].kind = "real"
    /\ clients[2].options.logLevelFlagKey = OptLogKey
    /\ clients[2].variations = 0

\* C19: a readiness wait that times out or fails is best-effort: initialize does
\* not raise because of it, carries on past the wait, and completes with the
\* client bound, so that subsequent leveled calls gate through that client.
C19_FailedWaitIsBestEffort ==
    [][/\ (init.pc = "tempWait" /\ TempWaitSettled(FALSE))
            => /\ initResult' # "raised"
               /\ init'.pc # "idle"
       /\ (init.pc = "realWait" /\ RealWaitSettled(FALSE))
            => /\ initResult' = "ok"
               /\ ldClient' # Null]_vars

\* C20: every diagnostic message the real client's logger adapter delivers at a
\* level l in {error, warn, info, debug} is handed to the facade's sink at that
\* same level l, without evaluating the log-level flag (no client is asked for a
\* variation, no leveled call is started or settled) and whatever thresholds
\* leveled calls have been or are being answered.
C20_SdkMessageForwardedAtItsLevel ==
    [][\A c \in 1..Len(clients), l \in SdkMessageLevels :
          Destination(c, l)
          => /\ sink' = Append(sink, [level |-> l, src |-> "sdk", msg |-> <<>>])
             /\ clients' = clients
             /\ calls' = calls]_vars

\* a warn call was answered ERROR and dropped, and after it the logger of the
\* real client, built at SDK level debug, delivered a debug message that the sink
\* received at debug
C20_Witness ==
    /\ nDiag >= 1
    /\ Len(clients) = 3
    /\ clients[3].kind = "real"
    /\ clients[3].level = "debug"
    /\ \E i \in 1..Len(calls) : Dropped(calls[i]) /\ calls[i].currentLevel = LogLevel_ERROR
    /\ Len(sink) >= 3
    /\ sink[Len(sink)] = [level |-> "debug", src |-> "sdk", msg |-> <<>>]
    /\ sink[Len(sink) - 1].src = "evaluated"

\* C21: once initialize has set the log-level flag key and the SDK-log-level flag
\* key of a facade, no later operation on that facade (a further initialize,
\* successful or failing, a leveled call, or close) changes either key.
C21_FlagKeysImmutableOnceSet ==
    [][(nInit > 0 /\ FLAG_KEY # Undefined)
          => /\ FLAG_KEY' = FLAG_KEY
             /\ SDK_LOG_LEVEL_FLAG_KEY' = SDK_LOG_LEVEL_FLAG_KEY]_vars

\* the clients the facade constructed itself that have not been asked to close
OpenConstructed ==
    {c \in 1..Len(clients) : clients[c].kind \in {"temp", "real"} /\ clients[c].closes = 0}

\* C22: in every reachable state of one facade, at most one client constructed by
\* the facade is open (constructed and not yet closed); in particular a real
\* client constructed earlier is not still open when a later initialize
\* constructs a temporary or real client.
C22_AtMostOneConstructedClientOpen ==
    Cardinality(OpenConstructed) <= 1

\* C23: a leveled call that starts before initialize has returned (also while
\* initialize is suspended at a readiness wait, an evaluation or a close) does
\* not raise and gates via the no-client path: it completes at once with
\* threshold ERROR and asks no client for a flag evaluation.
C23_CallDuringInitializeUsesNoClientPath ==
    [][(init.pc # "idle" /\ Len(calls') = Len(calls) + 1)
          => LET c == calls'[Len(calls')] IN
             /\ c.pc = "done"
             /\ c.evaluations = 0
             /\ c.currentLevel = LogLevel_ERROR
             /\ clients' = clients]_vars

\* call i receives its threshold in this step: it starts with no client bound,
\* or its evaluation settles with a value
Resolves(i) ==
    /\ i \in 1..Len(calls')
    /\ calls'[i].pc = "done"
    /\ i > Len(calls) \/ calls[i].pc = "evaluating"

\* C24 (as stated): for all levels L1, L2 with L1 numerically <= L2, L1 = L2
\* included: if the threshold is L2 then a call at L1 emits and a call at L2
\* emits; if the threshold is L1 then a call at L2 does not emit.
C24_MonotoneIncludingEqualLevels ==
    [][\A i \in 1..Len(calls') :
          Resolves(i)
          => LET c == calls'[i]
                 emits == Handed(c, sink, sink')
             IN \A L1 \in LogLevel, L2 \in LogLevel :
                   L1 <= L2
                   => /\ (c.currentLevel = L2 /\ c.level \in {L1, L2}) => emits
                      /\ (c.currentLevel = L1 /\ c.level = L2) => ~emits]_vars

\* C24 (amended): for all levels L1, L2 with L1 numerically <= L2: if the
\* threshold is L2 then a call at L1 emits and a call at L2 emits; if the
\* threshold is L1 and L1 is strictly below L2 then a call at L2 does not emit.
C24_MonotoneStrictForSuppression ==
    [][\A i \in 1..Len(calls') :
          Resolves(i)
          => LET c == calls'[i]
                 emits == Handed(c, sink, sink')
             IN \A L1 \in LogLevel, L2 \in LogLevel :
                   L1 <= L2
                   => /\ (c.currentLevel = L2 /\ c.level \in {L1, L2}) => emits
                      /\ (c.currentLevel = L1 /\ L1 < L2 /\ c.level = L2)
                            => (~emits /\ AppCount(sink') = AppCount(sink))]_vars

\* the boundary case L1 = L2: a warn call answered with threshold WARN has handed
\* its message to the sink
C24_Witness ==
    \E i \in 1..Len(calls) :
        /\ calls[i].pc = "done"
        /\ calls[i].client # Null
        /\ calls[i].level = LogLevel_WARN
        /\ calls[i].currentLevel = LogLevel_WARN
        /\ AppCount(sink) = 1
        /\ sink[Len(sink)].src = "app"
        /\ sink[Len(sink)].level = "warn"

\* C25: the value of the log-level flag is neither validated nor clamped to 0..5:
\* for any integer t it returns, a call at level L emits iff L <= t, so any
\* t >= 5 makes all six levels emit and any t < 0 suppresses all six, FATAL
\* included.
C25_ThresholdNotClamped ==
    [][\A i \in 1..Len(calls) :
          (calls[i].pc = "evaluating" /\ calls'[i].pc = "done")
          => LET c == calls'[i]
                 t == c.currentLevel
             IN /\ t \in FlagLevels
                /\ Handed(c, sink, sink') <=> c.level <= t
                /\ t >= 5 => Handed(c, sink, sink')
                /\ t < 0 => (~Handed(c, sink, sink') /\ AppCount(sink') = AppCount(sink))]_vars

\* a fatal call was answered with the threshold -1 and dropped
C25_Witness ==
    \E i \in 1..Len(calls) :
        /\ calls[i].pc = "done"
        /\ calls[i].client # Null
        /\ calls[i].level = LogLevel_FATAL
        /\ calls[i].currentLevel = -1
        /\ AppCount(sink) = 0
        /\ sink # <<>>
        /\ sink[Len(sink)].src = "evaluated"

\* the text each argument of the format checks is to become: a string as it is,
\* an object as JSON indented by two spaces
ExpectedRendering(arg) ==
    CASE arg = Str("a") -> <<"a">>
      [] arg = Str("b") -> <<"b">>
      [] arg = Obj(<<>>) -> <<"{", "}">>
      [] arg = Obj(<<"x">>) -> <<"{", "\n", " ", " ", "\"", "x", "\"", ":", " ", "1",
                                "\n", "}">>

\* where the rendering of argument k starts in the message, less one: the
\* renderings before it and one separator after each of them
RECURSIVE OffsetOf(_, _)
OffsetOf(args, k) ==
    IF k = 1 THEN 0
    ELSE OffsetOf(args, k - 1) + Len(ExpectedRendering(args[k - 1])) + 1

\* C26: formatMessage renders each argument independently (a string unchanged,
\* an object as its 2-space-indented JSON text) and joins the renderings in
\* argument order with exactly one space between adjacent arguments: n arguments
\* yield n-1 separators and a single argument yields its rendering alone.
C26_FormatJoinsRenderingsWithOneSpace ==
    \A i \in 1..Len(calls) :
        Passed(calls[i])
        => LET args == calls[i].args
               n == Len(args)
               msg == sink[Len(sink) - (Len(calls) - i)].msg
           IN /\ sink[Len(sink) - (Len(calls) - i)].src = "app"
              /\ n = 0 => msg = <<>>
              /\ n = 1 => msg = ExpectedRendering(args[1])
              /\ n >= 1 => Len(msg) = OffsetOf(args, n) + Len(ExpectedRendering(args[n]))
              /\ \A k \in 1..n :
                    /\ SubSeq(msg, OffsetOf(args, k) + 1,
                              OffsetOf(args, k) + Len(ExpectedRendering(args[k])))
                         = ExpectedRendering(args[k])
                    /\ k > 1 => msg[OffsetOf(args, k)] = " "

\* error("a", {x: 1}, "b") has handed to the sink the text of "a", a space, the
\* indented JSON of the object, a space, and "b"
C26_Witness ==
    /\ Len(calls) = 1
    /\ Passed(calls[1])
    /\ calls[1].args = <<Str("a"), Obj(<<"x">>), Str("b")>>
    /\ sink # <<>>
    /\ sink[Len(sink)].msg = <<"a", " ", "{", "\n", " ", " ", "\"", "x", "\"", ":", " ",
                                "1", "\n", "}", " ", "b">>

\* C27: for each of the two flag keys, a key given in the options of initialize
\* takes precedence over the process-wide default (environment variable); the
\* process-wide default is used only when the option is absent.
C27_OptionKeyOverridesEnvironment ==
    [][\A arg \in InitArgs, ctx \in Contexts, options \in InitOptions :
          InitStart(arg, ctx, options)
          => /\ FLAG_KEY' = IF options.logLevelFlagKey # Undefined
                               THEN options.logLevelFlagKey
                               ELSE env.LD_LOG_LEVEL_FLAG_KEY
             /\ SDK_LOG_LEVEL_FLAG_KEY' = IF options.sdkLogLevelFlagKey # Undefined
                                             THEN options.sdkLogLevelFlagKey
                                             ELSE env.LD_SDK_LOG_LEVEL_FLAG_KEY]_vars

\* with both environment variables set, initialize was given a log-level flag
\* key only: the facade holds the option for the one and the environment's
\* value for the other
C27_Witness ==
    /\ nInit = 1
    /\ env.LD_LOG_LEVEL_FLAG_KEY = EnvLogKey
    /\ env.LD_SDK_LOG_LEVEL_FLAG_KEY = EnvSdkKey
    /\ FLAG_KEY = OptLogKey
    /\ SDK_LOG_LEVEL_FLAG_KEY = EnvSdkKey

\* C28: the temporary bootstrap client is always constructed with diagnostic
\* verbosity "error" and with nothing of the caller's options, whatever the
\* options, the environment and the SDK log level resolved by an earlier
\* initialize.
C28_TempClientVerbosityIsError ==
    \A c \in 1..Len(clients) :
        clients[c].kind = "temp"
        => /\ clients[c].level = "error"
           /\ clients[c].options = Undefined

\* a second initialize has constructed its temporary client at "error" after a
\* first one resolved the SDK log level "debug" for its real client
C28_Witness ==
    \E c \in 1..Len(clients), d \in 1..Len(clients) :
        /\ c < d
        /\ clients[c].kind = "real"
        /\ clients[c].level = "debug"
        /\ clients[d].kind = "temp"
        /\ clients[d].level = "error"

\* C29: the SDK-log-level flag is evaluated on the temporary client, with the
\* fallback value "info" and against a synthetic service context whose key is the
\* service key of the caller's context when it has one and the placeholder
\* "default-service" otherwise; the caller's own context is never the context of
\* that evaluation, and no other client is asked for it.
C29_SdkFlagEvaluatedOnServiceContext ==
    init.evaluation # NoEvaluation
    => /\ init.evaluation.key = SDK_LOG_LEVEL_FLAG_KEY
       /\ init.evaluation.default = "info"
       /\ init.evaluation.ctx.kind = "service"
       /\ init.evaluation.ctx.key = IF init.ctx = "ctx-with-service"
                                       THEN "svc-key" ELSE "default-service"
       /\ init.ctx \in {"ctx-user", "ctx-with-service"}
       /\ clients[init.tempClient].kind = "temp"
       /\ clients[init.tempClient].variations = 1
       /\ \A c \in 1..Len(clients) :
             clients[c].kind # "temp" => clients[c].variations = 0

\* the SDK flag is being evaluated for a caller whose context names a service:
\* the evaluation carries that service's key and the fallback "info"
C29_Witness ==
    /\ init.pc = "sdkEval"
    /\ init.ctx = "ctx-with-service"
    /\ init.evaluation.ctx = [kind |-> "service", key |-> "svc-key"]
    /\ init.evaluation.default = "info"
    /\ clients[init.tempClient].variations = 1

\* the leveled calls that have asked client c for the log-level flag
EvaluatingCalls(c) ==
    {i \in 1..Len(calls) : calls[i].client = c /\ calls[i].evaluations > 0}

\* C30: no collaborator operation is retried.  Within one initialize each client
\* is constructed once (at most one temporary and one real client per call), its
\* readiness is awaited once and the SDK flag is evaluated at most once; within
\* one leveled call the log-level flag is evaluated at most once; all of this
\* also when the wait or the evaluation fails.
C30_NoCollaboratorOperationRetried ==
    /\ \A j \in 1..Len(initTrace), k \in 1..Len(initTrace) :
          j # k => initTrace[j] # initTrace[k]
    /\ Len(clients) - 1 <= 2 * nInit
    /\ \A c \in 1..Len(clients) :
          /\ clients[c].kind \in {"temp", "real"} => clients[c].waits <= 1
          /\ clients[c].kind = "temp" => clients[c].variations <= 1
          /\ clients[c].kind = "real"
                => clients[c].variations = Cardinality(EvaluatingCalls(c))
    /\ \A i \in 1..Len(calls) : calls[i].evaluations <= 1

\* initialize went through the whole SDK-flag protocol and then raised on the
\* failed readiness wait of the real client, and a leveled call raised on its
\* failed evaluation: each client was awaited once and asked once
C30_Witness ==
    /\ initResult = "raised"
    /\ initTrace = <<"tempInit", "tempWait", "sdkEval", "tempClose", "realInit", "realWait">>
    /\ Len(clients) = 3
    /\ clients[2].waits = 1 /\ clients[2].variations = 1
    /\ clients[3].waits = 1 /\ clients[3].variations = 1
    /\ \E i \in 1..Len(calls) :
          /\ calls[i].pc = "raised"
          /\ calls[i].client = 3
          /\ calls[i].evaluations = 1

\* C31: initialize never returns successfully before the readiness wait of the
\* client it bound (constructed or adopted) has settled: the only step that
\* ends an initialize call with success is the settling of the wait on the bound
\* client, and the step that starts a call never ends it with success.
C31_SuccessOnlyAfterReadinessWait ==
    [][/\ (init.pc # "idle" /\ init'.pc = "idle" /\ initResult' = "ok")
            => /\ init.pc = "realWait"
               /\ initTrace # <<>>
               /\ initTrace[Len(initTrace)] = "realWait"
               /\ ldClient # Null
               /\ ldClient' = ldClient
               /\ clients[ldClient].waits >= 1
       /\ (init.pc = "idle" /\ nInit' = nInit + 1 /\ init'.pc = "idle")
            => initResult' \in {"configuration-error", "invalid-argument"}]_vars

\* initialize has returned successfully after the whole SDK-flag protocol: the
\* real client it bound was asked to wait for readiness once
C31_Witness ==
    /\ init.pc = "idle"
    /\ initResult = "ok"
    /\ initTrace = <<"tempInit", "tempWait", "sdkEval", "tempClose", "realInit", "realWait">>
    /\ ldClient = Len(clients)
    /\ clients[ldClient].kind = "real"
    /\ clients[ldClient].waits = 1

\* C32: when several leveled calls on one facade are in flight together, the
\* emit-or-drop decision of each call is determined solely by the threshold
\* returned to that call's own evaluation: the settling of one call's evaluation
\* leaves every other call as it was, and the value returned to another call
\* never decides it, under every order in which the evaluations complete.
C32_ConcurrentCallsDecideIndependently ==
    [][\A i \in 1..Len(calls) :
          (calls[i].pc = "evaluating" /\ calls'[i].pc # "evaluating")
          => /\ \A j \in 1..Len(calls) : j # i => calls'[j] = calls[j]
             /\ calls'[i].pc = "done"
                   => LET emits == Handed(calls[i], sink, sink')
                      IN /\ emits <=> calls[i].level <= calls'[i].currentLevel
                         /\ ~emits => AppCount(sink') = AppCount(sink)
             /\ calls'[i].pc = "raised" => sink' = sink]_vars

\* two warn calls were in flight together and the second was answered first:
\* INFO to the second, which emitted, then ERROR to the first, which was dropped
C32_Witness ==
    /\ Len(calls) = 2
    /\ calls[1].client # Null
    /\ calls[2].client = calls[1].client
    /\ calls[1].pc = "done" /\ calls[2].pc = "done"
    /\ calls[1].level = LogLevel_WARN /\ calls[2].level = LogLevel_WARN
    /\ calls[1].currentLevel = LogLevel_ERROR
    /\ calls[2].currentLevel = LogLevel_INFO
    /\ Len(sink) >= 5
    /\ SubSeq(Sources(sink), Len(sink) - 4, Len(sink))
          = <<"evaluating", "evaluating", "evaluated", "app", "evaluated">>

\* the flag key, client and context of an evaluation all come from the first
\* initialize, or all from a later one (a client carries the options it was
\* constructed with, which differ between the first initialize and the later ones)
FromOneInitialize(call) ==
    LET made == clients[call.client].options.logLevelFlagKey
    IN \/ /\ call.key = OptLogKey
          /\ call.ctx = "ctx-user"
          /\ made = OptLogKey
       \/ /\ call.key = EnvLogKey
          /\ call.ctx = "ctx-with-service"
          /\ made = Undefined

\* C33: every flag evaluation made by a leveled call uses a flag key, a client
\* and a context that were all set by the same initialize call, also when the
\* leveled call interleaves with a second initialize on the same facade or
\* follows a failed one.
C33_EvaluationUsesOneInitializeSettings ==
    \A i \in 1..Len(calls) :
        calls[i].evaluations > 0 => FromOneInitialize(calls[i])

\* C34: close() leaves the facade's client reference, context and flag keys
\* unchanged: after close() the client is still bound, so a later leveled call
\* still evaluates the flag through the closed client instead of taking the
\* no-client path; with no client bound, close() calls no collaborator and
\* completes without raising.
C34_CloseKeepsClientBound ==
    [][/\ nClose' = nClose + 1
            => /\ ldClient' = ldClient
               /\ context' = context
               /\ FLAG_KEY' = FLAG_KEY
               /\ SDK_LOG_LEVEL_FLAG_KEY' = SDK_LOG_LEVEL_FLAG_KEY
               /\ initResult' = initResult
               /\ ldClient = Null => clients' = clients
               /\ ldClient # Null
                     => clients' = [clients EXCEPT ![ldClient].closes = @ + 1]
       /\ (/\ Len(calls') = Len(calls) + 1
           /\ ldClient # Null
           /\ clients[ldClient].closes > 0)
            => /\ calls'[Len(calls')].pc = "evaluating"
               /\ calls'[Len(calls')].client = ldClient
               /\ clients'[ldClient].variations = clients[ldClient].variations + 1]_vars

\* close() was called twice on a facade holding a client and the client is still
\* bound: both calls reached it, and a leveled call has asked it for the flag
C34_Witness ==
    /\ nClose = 2
    /\ ldClient # Null
    /\ clients[ldClient].closes = 2
    /\ context # Undefined
    /\ \E i \in 1..Len(calls) :
          /\ calls[i].client = ldClient
          /\ calls[i].evaluations = 1

\* C35: an initialize call that fails with the configuration error or the
\* invalid-argument error leaves the facade's bound client and evaluation
\* context exactly as they were before the call (and no client is touched).
C35_FailedValidationKeepsClientAndContext ==
    [][(/\ init.pc = "idle"
        /\ nInit' = nInit + 1
        /\ init'.pc = "idle")
          => /\ initResult' \in {"configuration-error", "invalid-argument"}
             /\ ldClient' = ldClient
             /\ context' = context
             /\ clients' = clients]_vars

\* a second initialize failed with the invalid-argument error on a facade that a
\* first initialize had bound: client and context are still those of the first
C35_Witness ==
    /\ nInit = 2
    /\ init.pc = "idle"
    /\ initResult = "invalid-argument"
    /\ ldClient # Null
    /\ context # Undefined
    /\ FLAG_KEY # Undefined

\* C36: when initialize is called with both no resolvable log-level flag key and
\* a first argument that is neither a string nor an object, the error raised is
\* the configuration error: the flag-key check precedes the argument-type check.
C36_ConfigurationErrorPrecedesArgumentError ==
    [][\A arg \in InitArgs, ctx \in Contexts, options \in InitOptions :
          (/\ NeitherKeyNorClient(arg)
           /\ NoLogKey(options)
           /\ InitStart(arg, ctx, options))
          => /\ initResult' = "configuration-error"
             /\ init'.pc = "idle"
             /\ FLAG_KEY' = Undefined]_vars

\* an initialize given only an SDK-log-level flag key, with no log-level flag key
\* in the environment, has failed with the configuration error
C36_Witness ==
    /\ nInit = 1
    /\ init.pc = "idle"
    /\ initResult = "configuration-error"
    /\ env.LD_LOG_LEVEL_FLAG_KEY = Undefined
    /\ FLAG_KEY = Undefined
    /\ SDK_LOG_LEVEL_FLAG_KEY = OptSdkKey
    /\ context = Undefined

====
